---------------------------- MODULE Spec2Model ----------------------------
(***************************************************************************)
(* Payroll ledger and reconciliation.                                      *)
(*                                                                         *)
(* The repository holds two store layers that do not share tables:         *)
(*   "app": src/app.py, SQLAlchemy models PayrollItem / MonthlyTotal and   *)
(*          the full rebuild reconcile_monthly_totals, behind Flask        *)
(*          handlers that all start with ensure_database_ready;            *)
(*   "db" : src/database.py, the sqlite3 tables detail_entries /           *)
(*          monthly_totals and the single-period upsert                    *)
(*          recalculate_month_totals.                                      *)
(* A behaviour is a run of one of the two; `layer` fixes which at Init.    *)
(*                                                                         *)
(* Money is counted in mills (1/1000 of the currency unit), so that        *)
(* round(x, 2) is a real operation: 7200.00 is 7200000, 1.004 is 1004.     *)
(* Months are the integers YYYYMM, which order as the 'YYYY-MM' strings do. *)
(* Free-text columns that no operation reads (subject, description,        *)
(* reference, created_at, updated_at) are left out of the rows.            *)
(***************************************************************************)
EXTENDS Integers, Sequences, FiniteSets

VARIABLES
    layer,           \* "app" or "db": which store layer this run exercises
    payroll_items,   \* app.py table payroll_items: id -> [month, amount, item_type]
    monthly_totals,  \* app.py table monthly_totals: id -> [month, total_proventos, total_descontos, valor_liquido, notes]
    detail_entries,  \* database.py table detail_entries: id -> [period, entry_type, amount]
    detail_seq,      \* database.py sqlite_sequence of detail_entries (AUTOINCREMENT)
    period_totals,   \* database.py table monthly_totals: set of [period, total_proventos, total_descontos, valor_liquido]
    last,            \* the request or call served last, with its outcome
    nreq,            \* number of requests / calls served so far
    session          \* the request in flight, when requests are followed commit by commit

vars == <<layer, payroll_items, monthly_totals, detail_entries, detail_seq,
          period_totals, last, nreq, session>>

-----------------------------------------------------------------------------
(* Bounds *)

\* Requests served by the Flask handlers of app.py in one run.
MaxRequests == 3

\* Calls made to the database.py layer in one run.
MaxCalls == 4

\* Requests followed commit by commit in one run of the app layer.
MaxSessions == 2

-----------------------------------------------------------------------------
(* Values *)

\* Python's None / SQL NULL in the notes column.
None == "(None)"

Abs(x) == IF x < 0 THEN -x ELSE x

\* round(x, 2) on a value counted in mills: the nearest whole cent (a
\* multiple of 10), a tie going to the even cent as Python's round does.
Round2(x) ==
    LET q == x \div 10
        r == x % 10
    IN  IF r < 5 THEN q * 10
        ELSE IF r > 5 THEN (q + 1) * 10
        ELSE IF q % 2 = 0 THEN q * 10 ELSE (q + 1) * 10

EmptyTable == [i \in {} |-> 0]

\* The rowid SQLite gives a new row of a table declared INTEGER PRIMARY KEY
\* without AUTOINCREMENT: one more than the largest rowid in use.
NextId(table) ==
    IF DOMAIN table = {} THEN 1
    ELSE (CHOOSE i \in DOMAIN table : \A j \in DOMAIN table : j <= i) + 1

RECURSIVE SumAmount(_, _)
SumAmount(table, ids) ==
    IF ids = {} THEN 0
    ELSE LET i == CHOOSE i \in ids : TRUE
         IN  table[i].amount + SumAmount(table, ids \ {i})

-----------------------------------------------------------------------------
(* app.py: seed data *)

\* demo_items of seed_demo_data, bulk-inserted into the empty table.
SeedItems == <<
    [month |-> 202501, amount |-> 7200000,  item_type |-> "provento"],
    [month |-> 202501, amount |-> -850150,  item_type |-> "desconto"],
    [month |-> 202501, amount |-> 840500,   item_type |-> "provento"],
    [month |-> 202502, amount |-> 7200000,  item_type |-> "provento"],
    [month |-> 202502, amount |-> -1120330, item_type |-> "desconto"],
    [month |-> 202502, amount |-> 1500000,  item_type |-> "provento"] >>

-----------------------------------------------------------------------------
(* app.py: reconcile_monthly_totals *)

\* A rebuild that forgets the notes.
NotesMapDrop(totals, m) == None

\* notes_map.get(month): the notes of the row of `month`, None without one.
NotesMap(totals, m) ==
    IF \E i \in DOMAIN totals : totals[i].month = m
    THEN totals[CHOOSE i \in DOMAIN totals : totals[i].month = m].notes
    ELSE None

\* One row of the GROUP BY month, item_type query: func.sum(amount).
GroupSum(items, m, t) ==
    SumAmount(items, {i \in DOMAIN items :
                        items[i].month = m /\ items[i].item_type = t})

GroupTypes(items, m) ==
    {items[i].item_type : i \in {j \in DOMAIN items : items[j].month = m}}

RECURSIVE SumGroups(_, _, _)
SumGroups(items, m, types) ==
    IF types = {} THEN 0
    ELSE LET t == CHOOSE t \in types : TRUE
         IN  GroupSum(items, m, t) + SumGroups(items, m, types \ {t})

\* aggregates[month]["proventos"]: the 'provento' group and every group of
\* another type that is not 'desconto'.
AggProventos(items, m) ==
    SumGroups(items, m, GroupTypes(items, m) \ {"desconto"})

\* aggregates[month]["descontos"]: abs() of the summed 'desconto' group.
AggDescontos(items, m) ==
    IF "desconto" \in GroupTypes(items, m)
    THEN Abs(GroupSum(items, m, "desconto")) ELSE 0

ItemMonths(items) == {items[i].month : i \in DOMAIN items}

MonthAt(ms, k) == CHOOSE m \in ms : Cardinality({x \in ms : x <= m}) = k

\* A row whose net adds the deductions instead of subtracting them.
TotalRowNetSum(items, totals, m) ==
    LET proventos == AggProventos(items, m)
        descontos == AggDescontos(items, m)
        liquid == proventos + descontos
    IN  [month |-> m,
         total_proventos |-> Round2(proventos),
         total_descontos |-> Round2(descontos),
         valor_liquido |-> Round2(liquid),
         notes |-> NotesMap(totals, m)]

\* The MonthlyTotal row built for one month of `aggregates`.
TotalRow(items, totals, m) ==
    LET proventos == AggProventos(items, m)
        descontos == AggDescontos(items, m)
        liquid == proventos - descontos
    IN  [month |-> m,
         total_proventos |-> Round2(proventos),
         total_descontos |-> Round2(descontos),
         valor_liquido |-> Round2(liquid),
         notes |-> NotesMap(totals, m)]

\* A rebuild without MonthlyTotal.query.delete(): the new rows are added
\* to the old ones.
ReconcileNoDelete(items, totals) ==
    LET ms == ItemMonths(items)
        base == NextId(totals) - 1
    IN  [id \in DOMAIN totals \cup ((base + 1)..(base + Cardinality(ms))) |->
            IF id \in DOMAIN totals THEN totals[id]
            ELSE TotalRow(items, totals, MonthAt(ms, id - base))]

\* A rebuild that replaces the rows of the months that have entries and
\* keeps the rows of the others.
ReconcileUpsert(items, totals) ==
    LET ms == ItemMonths(items)
        kept == {i \in DOMAIN totals : totals[i].month \notin ms}
        base == IF kept = {} THEN 0
                ELSE CHOOSE i \in kept : \A j \in kept : j <= i
    IN  [id \in kept \cup ((base + 1)..(base + Cardinality(ms))) |->
            IF id \in kept THEN totals[id]
            ELSE TotalRow(items, totals, MonthAt(ms, id - base))]

\* The table after MonthlyTotal.query.delete() and one add per month of
\* `aggregates`: the new rows take rowids 1..n in the order of the grouped
\* query, which SQLite returns sorted by month.
ReconcileMonthlyTotals(items, totals) ==
    LET ms == ItemMonths(items)
    IN  [id \in 1..Cardinality(ms) |-> TotalRow(items, totals, MonthAt(ms, id))]

\* bulk_save_objects(demo_items): the six rows take the next rowids.
BulkSave(items) ==
    LET base == NextId(items) - 1
    IN  [i \in DOMAIN items \cup ((base + 1)..(base + Len(SeedItems))) |->
            IF i \in DOMAIN items THEN items[i] ELSE SeedItems[i - base]]

\* seed_demo_data: the six rows, committed, then a reconciliation.
SeedDemoData(items, totals) ==
    [items |-> BulkSave(items),
     totals |-> ReconcileMonthlyTotals(BulkSave(items), totals)]

\* ensure_database_ready that looks for a MonthlyTotal row instead.
EnsureDatabaseReadyByTotals(items, totals) ==
    IF DOMAIN totals = {} THEN SeedDemoData(items, totals)
    ELSE [items |-> items, totals |-> totals]

\* ensure_database_ready: seeds when payroll_items has no row.
EnsureDatabaseReady(items, totals) ==
    IF DOMAIN items = {} THEN SeedDemoData(items, totals)
    ELSE [items |-> items, totals |-> totals]


-----------------------------------------------------------------------------
(* app.py: request inputs *)

\* Posted item forms (month, amount, item_type). They put a positive
\* 'desconto' beside the seeded negative one, and amounts below one cent,
\* of the catch-all type and of 'desconto', in a month the seed does not use.
ItemForms == {
    [month |-> 202501, amount |-> 300000, item_type |-> "desconto"],
    [month |-> 202503, amount |-> 1004,   item_type |-> "outro"],
    [month |-> 202503, amount |-> 6,      item_type |-> "desconto"] }

\* item_type values the PayrollItem column is documented to hold.
RecognizedTypes == {"provento", "desconto", "outro"}

\* A posted item form whose item_type is none of them.
UnrecognizedItemForms == {
    [month |-> 202503, amount |-> 120000, item_type |-> "bonus"] }

\* Posted total forms (month, total_proventos, total_descontos, notes): one
\* for a month the seed uses and one for a month it does not.
TotalForms == {
    [month |-> 202501, total_proventos |-> 1004,   total_descontos |-> 6,      notes |-> ""],
    [month |-> 202503, total_proventos |-> 500000, total_descontos |-> 100000, notes |-> "X"] }

\* Ids a request URL may carry: every id a row can hold in a run.
ItemIds == 1..(Len(SeedItems) + MaxRequests)

TotalIds == 1..(Cardinality({SeedItems[i].month : i \in DOMAIN SeedItems}) + MaxRequests)

\* What is kept of the request served last: the handler, how it ended, the
\* id it addressed or made, the periods it touched, the periods that had an
\* aggregate row when it started, and the request served before it.
Served(op, outcome, id, touched, had) ==
    [op |-> op, outcome |-> outcome, id |-> id, touched |-> touched, had |-> had,
     prev |-> [op |-> last.op, touched |-> last.touched]]

\* No form posted.
NoForm == [month |-> 0, amount |-> 0, item_type |-> ""]

\* No request in flight.
Idle == [pc |-> "idle", op |-> "none", id |-> 0, form |-> NoForm, then |-> "done",
         work |-> EmptyTable, todo |-> {}, touched |-> {}]

TotalMonths(totals) == {totals[i].month : i \in DOMAIN totals}

TotalPeriods(totals) == {r.period : r \in totals}

WithRow(table, id, row) ==
    [i \in DOMAIN table \cup {id} |-> IF i = id THEN row ELSE table[i]]

WithoutRow(table, id) == [i \in DOMAIN table \ {id} |-> table[i]]

AppStep == layer = "app" /\ nreq < MaxRequests /\ nreq' = nreq + 1
                         /\ UNCHANGED <<layer, detail_entries, detail_seq, period_totals, session>>

-----------------------------------------------------------------------------
(* app.py: query_items *)

\* Values of the filter_month and filter_type query arguments. A month
\* filter of 0 stands for the absent or empty argument, which `if
\* filter_month:` takes as no filter; so do None and "" for the type.
FilterMonths == {0, 202501, 202503}

FilterTypes == {None, "", "desconto", "outro"}

\* order_by(PayrollItem.month.desc(), PayrollItem.id.desc())
RECURSIVE OrderByMonthIdDesc(_, _)
OrderByMonthIdDesc(items, ids) ==
    IF ids = {} THEN <<>>
    ELSE LET first == CHOOSE i \in ids : \A j \in ids :
                         \/ items[j].month < items[i].month
                         \/ items[j].month = items[i].month /\ j <= i
         IN  <<first>> \o OrderByMonthIdDesc(items, ids \ {first})

\* query_items that keeps the rows matching either filter.
QueryItemsEither(items, filter_month, filter_type) ==
    LET by_month == {i \in DOMAIN items :
                        filter_month # 0 /\ items[i].month = filter_month}
        by_type == {i \in DOMAIN items :
                        filter_type \notin {None, ""} /\ items[i].item_type = filter_type}
    IN  OrderByMonthIdDesc(items,
            IF filter_month = 0 /\ filter_type \in {None, ""} THEN DOMAIN items
            ELSE by_month \cup by_type)

\* query_items: the ids of the rows returned, in order.
QueryItems(items, filter_month, filter_type) ==
    LET query == DOMAIN items
        by_month == IF filter_month # 0
                    THEN {i \in query : items[i].month = filter_month}
                    ELSE query
        by_type == IF filter_type \notin {None, ""}
                   THEN {i \in by_month : items[i].item_type = filter_type}
                   ELSE by_month
    IN  OrderByMonthIdDesc(items, by_type)

-----------------------------------------------------------------------------
(* app.py: handlers *)

\* GET /
index ==
    /\ AppStep
    /\ LET db == EnsureDatabaseReady(payroll_items, monthly_totals)
       IN  /\ payroll_items' = db.items
           /\ monthly_totals' = ReconcileMonthlyTotals(db.items, db.totals)
    /\ last' = Served("index", "ok", 0, {}, TotalMonths(monthly_totals))

\* POST /items
create_item(form) ==
    /\ AppStep
    /\ LET db == EnsureDatabaseReady(payroll_items, monthly_totals)
           new_id == NextId(db.items)
           items == WithRow(db.items, new_id, form)
       IN  /\ payroll_items' = items
           /\ monthly_totals' = ReconcileMonthlyTotals(items, db.totals)
           /\ last' = Served("create_item", "success", new_id, {form.month}, TotalMonths(monthly_totals))

\* update_item without its call of reconcile_monthly_totals.
update_item_stale(item_id, form) ==
    /\ AppStep
    /\ LET db == EnsureDatabaseReady(payroll_items, monthly_totals)
       IN  IF item_id \notin DOMAIN db.items
           THEN /\ payroll_items' = db.items
                /\ monthly_totals' = db.totals
                /\ last' = Served("update_item", "not_found", item_id, {}, TotalMonths(monthly_totals))
           ELSE /\ payroll_items' = [db.items EXCEPT ![item_id] = form]
                /\ monthly_totals' = db.totals
                /\ last' = Served("update_item", "success", item_id,
                                  {db.items[item_id].month, form.month}, TotalMonths(monthly_totals))

\* POST /items with an amount field that float() cannot parse: the
\* ValueError is raised after ensure_database_ready and before any insert.
create_item_bad_amount ==
    /\ AppStep
    /\ LET db == EnsureDatabaseReady(payroll_items, monthly_totals)
       IN  /\ payroll_items' = db.items
           /\ monthly_totals' = db.totals
    /\ last' = Served("create_item", "error", 0, {}, TotalMonths(monthly_totals))

\* POST /items/<item_id>/update
update_item(item_id, form) ==
    /\ AppStep
    /\ LET db == EnsureDatabaseReady(payroll_items, monthly_totals)
       IN  IF item_id \notin DOMAIN db.items
           THEN /\ payroll_items' = db.items
                /\ monthly_totals' = db.totals
                /\ last' = Served("update_item", "not_found", item_id, {}, TotalMonths(monthly_totals))
           ELSE LET items == [db.items EXCEPT ![item_id] = form]
                IN  /\ payroll_items' = items
                    /\ monthly_totals' = ReconcileMonthlyTotals(items, db.totals)
                    /\ last' = Served("update_item", "success", item_id,
                                      {db.items[item_id].month, form.month}, TotalMonths(monthly_totals))

\* POST /items/<item_id>/delete
delete_item(item_id) ==
    /\ AppStep
    /\ LET db == EnsureDatabaseReady(payroll_items, monthly_totals)
       IN  IF item_id \notin DOMAIN db.items
           THEN /\ payroll_items' = db.items
                /\ monthly_totals' = db.totals
                /\ last' = Served("delete_item", "not_found", item_id, {}, TotalMonths(monthly_totals))
           ELSE LET items == WithoutRow(db.items, item_id)
                IN  /\ payroll_items' = items
                    /\ monthly_totals' = ReconcileMonthlyTotals(items, db.totals)
                    /\ last' = Served("delete_item", "success", item_id,
                                      {db.items[item_id].month}, TotalMonths(monthly_totals))

\* create_total that replaces the row of the month instead of returning.
create_total_replace(form) ==
    /\ AppStep
    /\ LET db == EnsureDatabaseReady(payroll_items, monthly_totals)
           old == {i \in DOMAIN db.totals : db.totals[i].month = form.month}
           rest == [i \in DOMAIN db.totals \ old |-> db.totals[i]]
           total == [month |-> form.month,
                     total_proventos |-> form.total_proventos,
                     total_descontos |-> form.total_descontos,
                     valor_liquido |-> form.total_proventos - form.total_descontos,
                     notes |-> form.notes]
       IN  /\ payroll_items' = db.items
           /\ monthly_totals' = WithRow(rest, NextId(db.totals), total)
           /\ last' = Served("create_total", IF old = {} THEN "success" ELSE "warning",
                             NextId(db.totals), {form.month}, TotalMonths(monthly_totals))

\* POST /totals
create_total(form) ==
    /\ AppStep
    /\ LET db == EnsureDatabaseReady(payroll_items, monthly_totals)
           existing == \E i \in DOMAIN db.totals : db.totals[i].month = form.month
           new_id == NextId(db.totals)
           total == [month |-> form.month,
                     total_proventos |-> form.total_proventos,
                     total_descontos |-> form.total_descontos,
                     valor_liquido |-> form.total_proventos - form.total_descontos,
                     notes |-> form.notes]
       IN  /\ payroll_items' = db.items
           /\ IF existing
              THEN /\ monthly_totals' = db.totals
                   /\ last' = Served("create_total", "warning", 0, {form.month}, TotalMonths(monthly_totals))
              ELSE /\ monthly_totals' = WithRow(db.totals, new_id, total)
                   /\ last' = Served("create_total", "success", new_id, {form.month}, TotalMonths(monthly_totals))

\* update_total over a month column that is not UNIQUE.
update_total_unchecked(total_id, form) ==
    /\ AppStep
    /\ LET db == EnsureDatabaseReady(payroll_items, monthly_totals)
           total == [month |-> form.month,
                     total_proventos |-> form.total_proventos,
                     total_descontos |-> form.total_descontos,
                     valor_liquido |-> form.total_proventos - form.total_descontos,
                     notes |-> form.notes]
       IN  /\ payroll_items' = db.items
           /\ IF total_id \notin DOMAIN db.totals
              THEN /\ monthly_totals' = db.totals
                   /\ last' = Served("update_total", "not_found", total_id, {}, TotalMonths(monthly_totals))
              ELSE /\ monthly_totals' = [db.totals EXCEPT ![total_id] = total]
                   /\ last' = Served("update_total", "success", total_id,
                                     {db.totals[total_id].month, form.month}, TotalMonths(monthly_totals))

\* update_total whose failed commit leaves the other columns written.
update_total_partial(total_id, form) ==
    /\ AppStep
    /\ LET db == EnsureDatabaseReady(payroll_items, monthly_totals)
           total == [month |-> form.month,
                     total_proventos |-> form.total_proventos,
                     total_descontos |-> form.total_descontos,
                     valor_liquido |-> form.total_proventos - form.total_descontos,
                     notes |-> form.notes]
           clash == \E i \in DOMAIN db.totals \ {total_id} :
                        db.totals[i].month = form.month
       IN  /\ payroll_items' = db.items
           /\ IF total_id \notin DOMAIN db.totals
              THEN /\ monthly_totals' = db.totals
                   /\ last' = Served("update_total", "not_found", total_id, {}, TotalMonths(monthly_totals))
              ELSE IF clash
              THEN /\ monthly_totals' = [db.totals EXCEPT ![total_id] =
                                            [total EXCEPT !.month = db.totals[total_id].month]]
                   /\ last' = Served("update_total", "error", total_id, {form.month}, TotalMonths(monthly_totals))
              ELSE /\ monthly_totals' = [db.totals EXCEPT ![total_id] = total]
                   /\ last' = Served("update_total", "success", total_id,
                                     {db.totals[total_id].month, form.month}, TotalMonths(monthly_totals))

\* POST /totals/<total_id>/update. The commit fails on the UNIQUE month
\* column when another row holds the posted month; the session is then
\* rolled back at the end of the request.
update_total(total_id, form) ==
    /\ AppStep
    /\ LET db == EnsureDatabaseReady(payroll_items, monthly_totals)
           total == [month |-> form.month,
                     total_proventos |-> form.total_proventos,
                     total_descontos |-> form.total_descontos,
                     valor_liquido |-> form.total_proventos - form.total_descontos,
                     notes |-> form.notes]
           clash == \E i \in DOMAIN db.totals \ {total_id} :
                        db.totals[i].month = form.month
       IN  /\ payroll_items' = db.items
           /\ IF total_id \notin DOMAIN db.totals
              THEN /\ monthly_totals' = db.totals
                   /\ last' = Served("update_total", "not_found", total_id, {}, TotalMonths(monthly_totals))
              ELSE IF clash
              THEN /\ monthly_totals' = db.totals
                   /\ last' = Served("update_total", "error", total_id, {form.month}, TotalMonths(monthly_totals))
              ELSE /\ monthly_totals' = [db.totals EXCEPT ![total_id] = total]
                   /\ last' = Served("update_total", "success", total_id,
                                     {db.totals[total_id].month, form.month}, TotalMonths(monthly_totals))

\* POST /totals/<total_id>/delete
delete_total(total_id) ==
    /\ AppStep
    /\ LET db == EnsureDatabaseReady(payroll_items, monthly_totals)
       IN  /\ payroll_items' = db.items
           /\ IF total_id \notin DOMAIN db.totals
              THEN /\ monthly_totals' = db.totals
                   /\ last' = Served("delete_total", "not_found", total_id, {}, TotalMonths(monthly_totals))
              ELSE /\ monthly_totals' = WithoutRow(db.totals, total_id)
                   /\ last' = Served("delete_total", "success", total_id,
                                     {db.totals[total_id].month}, TotalMonths(monthly_totals))

\* POST /totals/recalculate
recalculate_totals ==
    /\ AppStep
    /\ LET db == EnsureDatabaseReady(payroll_items, monthly_totals)
       IN  /\ payroll_items' = db.items
           /\ monthly_totals' = ReconcileMonthlyTotals(db.items, db.totals)
    /\ last' = Served("recalculate_totals", "success", 0, {}, TotalMonths(monthly_totals))

-----------------------------------------------------------------------------
(* database.py *)

DbPeriods == {202401, 202402}

\* Rows written to detail_entries (period, entry_type, amount): the test's
\* 1000.00 provento, a deduction stored as a magnitude and one stored
\* negative, an amount below one cent, and a type the CHECK refuses.
DetailForms == {
    [period |-> 202401, entry_type |-> "provento", amount |-> 1000000],
    [period |-> 202401, entry_type |-> "desconto", amount |-> 850150],
    [period |-> 202401, entry_type |-> "desconto", amount |-> -300000],
    [period |-> 202402, entry_type |-> "provento", amount |-> 1004],
    [period |-> 202402, entry_type |-> "outro",    amount |-> 120000] }

\* CHECK(entry_type IN ('provento', 'desconto'))
CheckEntryType(form) == form.entry_type \in {"provento", "desconto"}

DetailIds == 1..MaxCalls

DbStep == layer = "db" /\ nreq < MaxCalls /\ nreq' = nreq + 1
                       /\ UNCHANGED <<layer, payroll_items, monthly_totals, session>>

\* SUM(CASE WHEN entry_type = t THEN amount ELSE 0 END) ... WHERE period = ?,
\* with `or 0` for the NULL of an empty selection.
SumCase(entries, period, t) ==
    SumAmount(entries, {i \in DOMAIN entries :
                          entries[i].period = period /\ entries[i].entry_type = t})

\* An upsert that empties the table first.
UpsertAfterClear(totals, row) == {row}

\* INSERT ... ON CONFLICT(period) DO UPDATE: the row of `period` is replaced
\* where there is one and added where there is none.
Upsert(totals, row) ==
    {r \in totals : r.period # row.period} \cup {row}

RecalculatedRow(entries, period) ==
    LET total_proventos == SumCase(entries, period, "provento")
        total_descontos == SumCase(entries, period, "desconto")
        valor_liquido == total_proventos - total_descontos
    IN  [period |-> period,
         total_proventos |-> total_proventos,
         total_descontos |-> total_descontos,
         valor_liquido |-> valor_liquido]

\* recalculate_month_totals that removes the row of a period without entries.
recalculate_month_totals_drop(period) ==
    /\ DbStep
    /\ period_totals' =
          IF \E i \in DOMAIN detail_entries : detail_entries[i].period = period
          THEN Upsert(period_totals, RecalculatedRow(detail_entries, period))
          ELSE {r \in period_totals : r.period # period}
    /\ UNCHANGED <<detail_entries, detail_seq>>
    /\ last' = Served("recalculate_month_totals", "ok", 0, {period}, TotalPeriods(period_totals))

\* recalculate_month_totals(app, period)
recalculate_month_totals(period) ==
    /\ DbStep
    /\ period_totals' = Upsert(period_totals, RecalculatedRow(detail_entries, period))
    /\ UNCHANGED <<detail_entries, detail_seq>>
    /\ last' = Served("recalculate_month_totals", "ok", 0, {period}, TotalPeriods(period_totals))

\* createEntry of the store: one INSERT into detail_entries, whose id is
\* AUTOINCREMENT; reconciling is left to the caller.
insert_entry(form) ==
    /\ DbStep
    /\ IF CheckEntryType(form)
       THEN /\ detail_seq' = detail_seq + 1
            /\ detail_entries' = WithRow(detail_entries, detail_seq + 1, form)
            /\ last' = Served("insert_entry", "ok", detail_seq + 1, {form.period}, TotalPeriods(period_totals))
       ELSE /\ UNCHANGED <<detail_seq, detail_entries>>
            /\ last' = Served("insert_entry", "error", 0, {}, TotalPeriods(period_totals))
    /\ UNCHANGED period_totals

\* deleteEntry of the store: one DELETE by id; reconciling is left to the caller.
delete_entry(entry_id) ==
    /\ DbStep
    /\ entry_id \in DOMAIN detail_entries
    /\ detail_entries' = WithoutRow(detail_entries, entry_id)
    /\ UNCHANGED <<detail_seq, period_totals>>
    /\ last' = Served("delete_entry", "ok", entry_id, {detail_entries[entry_id].period}, TotalPeriods(period_totals))

-----------------------------------------------------------------------------
(* app.py: the item requests, commit by commit *)

\* Between two db.session.commit() calls the request works in its own
\* transaction: payroll_items and monthly_totals are the committed tables,
\* which every other connection reads, and session.work is the
\* monthly_totals table as the open transaction of the request sees it.

\* A request arrives.
Begin(op, id, form) ==
    /\ layer = "app"
    /\ session.pc = "idle"
    /\ nreq < MaxSessions
    /\ nreq' = nreq + 1
    /\ session' = [Idle EXCEPT !.pc = "ensure", !.op = op, !.id = id, !.form = form]
    /\ UNCHANGED <<layer, payroll_items, monthly_totals, detail_entries,
                   detail_seq, period_totals, last>>

SessionStep ==
    /\ layer = "app"
    /\ UNCHANGED <<layer, detail_entries, detail_seq, period_totals, last, nreq>>

\* ensure_database_ready: on an empty ledger seed_demo_data commits the demo
\* items (line 110) and goes on to reconcile_monthly_totals (line 111).
ensure_database_ready ==
    /\ SessionStep
    /\ session.pc = "ensure"
    /\ IF DOMAIN payroll_items = {}
       THEN /\ payroll_items' = BulkSave(payroll_items)
            /\ session' = [session EXCEPT !.pc = "reconcile", !.then = "handler"]
       ELSE /\ UNCHANGED payroll_items
            /\ session' = [session EXCEPT !.pc = "handler"]
    /\ UNCHANGED monthly_totals

\* create_item up to its db.session.commit() (line 203).
create_item_commit ==
    /\ SessionStep
    /\ session.pc = "handler"
    /\ session.op = "create_item"
    /\ payroll_items' = WithRow(payroll_items, NextId(payroll_items), session.form)
    /\ session' = [session EXCEPT !.pc = "reconcile", !.then = "done",
                                  !.touched = {session.form.month}]
    /\ UNCHANGED monthly_totals

\* update_item up to its db.session.commit() (line 219), or its 404.
update_item_commit ==
    /\ SessionStep
    /\ session.pc = "handler"
    /\ session.op = "update_item"
    /\ IF session.id \notin DOMAIN payroll_items
       THEN /\ UNCHANGED payroll_items
            /\ session' = [session EXCEPT !.pc = "idle", !.touched = {}]
       ELSE /\ payroll_items' = [payroll_items EXCEPT ![session.id] = session.form]
            /\ session' = [session EXCEPT !.pc = "reconcile", !.then = "done",
                               !.touched = {payroll_items[session.id].month,
                                            session.form.month}]
    /\ UNCHANGED monthly_totals

\* delete_item up to its db.session.commit() (line 230), or its 404.
delete_item_commit ==
    /\ SessionStep
    /\ session.pc = "handler"
    /\ session.op = "delete_item"
    /\ IF session.id \notin DOMAIN payroll_items
       THEN /\ UNCHANGED payroll_items
            /\ session' = [session EXCEPT !.pc = "idle", !.touched = {}]
       ELSE /\ payroll_items' = WithoutRow(payroll_items, session.id)
            /\ session' = [session EXCEPT !.pc = "reconcile", !.then = "done",
                               !.touched = {payroll_items[session.id].month}]
    /\ UNCHANGED monthly_totals

\* recalculate_totals: nothing to commit before the rebuild.
recalculate_totals_call ==
    /\ SessionStep
    /\ session.pc = "handler"
    /\ session.op = "recalculate_totals"
    /\ session' = [session EXCEPT !.pc = "reconcile", !.then = "done", !.touched = {}]
    /\ UNCHANGED <<payroll_items, monthly_totals>>

\* A delete that is committed on its own, before the rows are added.
reconcile_delete_committed ==
    /\ SessionStep
    /\ session.pc = "reconcile"
    /\ session' = [session EXCEPT !.pc = "adding", !.work = EmptyTable,
                                  !.todo = ItemMonths(payroll_items)]
    /\ monthly_totals' = EmptyTable
    /\ UNCHANGED payroll_items

\* reconcile_monthly_totals, lines 116-131: notes_map and the grouped sums
\* are read, and MonthlyTotal.query.delete() empties the table in the open
\* transaction.
reconcile_delete ==
    /\ SessionStep
    /\ session.pc = "reconcile"
    /\ session' = [session EXCEPT !.pc = "adding", !.work = EmptyTable,
                                  !.todo = ItemMonths(payroll_items)]
    /\ UNCHANGED <<payroll_items, monthly_totals>>

\* reconcile_monthly_totals, one turn of the loop of lines 132-144:
\* db.session.add of the row of the next month.
reconcile_add ==
    /\ SessionStep
    /\ session.pc = "adding"
    /\ session.todo # {}
    /\ LET month == MonthAt(session.todo, 1)
       IN  session' = [session EXCEPT
                         !.work = WithRow(session.work, NextId(session.work),
                                          TotalRow(payroll_items, monthly_totals, month)),
                         !.todo = session.todo \ {month}]
    /\ UNCHANGED <<payroll_items, monthly_totals>>

\* reconcile_monthly_totals, line 145: db.session.commit().
reconcile_commit ==
    /\ SessionStep
    /\ session.pc = "adding"
    /\ session.todo = {}
    /\ monthly_totals' = session.work
    /\ session' = IF session.then = "handler"
                  THEN [session EXCEPT !.pc = "handler", !.then = "done",
                                       !.work = EmptyTable]
                  ELSE [session EXCEPT !.pc = "idle", !.work = EmptyTable]
    /\ UNCHANGED payroll_items

-----------------------------------------------------------------------------
(* Specification *)

\* A fresh database file: db.create_all() / init_db have made empty tables.
Init ==
    /\ layer \in {"app", "db"}
    /\ payroll_items = EmptyTable
    /\ monthly_totals = EmptyTable
    /\ detail_entries = EmptyTable
    /\ detail_seq = 0
    /\ period_totals = {}
    /\ last = [op |-> "init", outcome |-> "ok", id |-> 0, touched |-> {}, had |-> {},
               prev |-> [op |-> "none", touched |-> {}]]
    /\ nreq = 0
    /\ session = Idle

Next ==
    \/ index
    \/ \E form \in ItemForms \cup UnrecognizedItemForms : create_item(form)
    \/ create_item_bad_amount
    \/ \E item_id \in ItemIds, form \in ItemForms : update_item(item_id, form)
    \/ \E item_id \in ItemIds : delete_item(item_id)
    \/ \E form \in TotalForms : create_total(form)
    \/ \E total_id \in TotalIds, form \in TotalForms : update_total(total_id, form)
    \/ \E total_id \in TotalIds : delete_total(total_id)
    \/ recalculate_totals
    \/ \E form \in DetailForms : insert_entry(form)
    \/ \E entry_id \in DetailIds : delete_entry(entry_id)
    \/ \E period \in DbPeriods : recalculate_month_totals(period)

Spec == Init /\ [][Next]_vars

\* The item requests of the app layer, one at a time, commit by commit.
InitSteps == Init /\ layer = "app"

NextSteps ==
    \/ \E form \in ItemForms : Begin("create_item", 0, form)
    \/ \E item_id \in ItemIds, form \in ItemForms : Begin("update_item", item_id, form)
    \/ \E item_id \in ItemIds : Begin("delete_item", item_id, NoForm)
    \/ Begin("recalculate_totals", 0, NoForm)
    \/ ensure_database_ready
    \/ create_item_commit
    \/ update_item_commit
    \/ delete_item_commit
    \/ recalculate_totals_call
    \/ reconcile_delete
    \/ reconcile_add
    \/ reconcile_commit

SpecSteps == InitSteps /\ [][NextSteps]_vars

-----------------------------------------------------------------------------
(* Vocabulary of the properties *)

\* The request served last ended with a run of reconcile_monthly_totals.
Reconciled ==
    /\ layer = "app"
    /\ \/ last.op \in {"index", "recalculate_totals"}
       \/ /\ last.op \in {"create_item", "update_item", "delete_item"}
          /\ last.outcome = "success"

\* The call served last was recalculate_month_totals(period).
Recalculated(period) ==
    /\ layer = "db"
    /\ last.op = "recalculate_month_totals"
    /\ period \in last.touched

RECURSIVE SumAbsAmount(_, _)
SumAbsAmount(table, ids) ==
    IF ids = {} THEN 0
    ELSE LET i == CHOOSE i \in ids : TRUE
         IN  Abs(table[i].amount) + SumAbsAmount(table, ids \ {i})

\* The sums a period's entries stand for: the amounts of its income-like
\* entries, and the magnitudes |amount| of its desconto entries.
IncomeOf(items, m) ==
    SumAmount(items, {i \in DOMAIN items :
                        items[i].month = m /\ items[i].item_type # "desconto"})

DeductionsOf(items, m) ==
    SumAbsAmount(items, {i \in DOMAIN items :
                           items[i].month = m /\ items[i].item_type = "desconto"})

DetailIncomeOf(entries, period) ==
    SumAmount(entries, {i \in DOMAIN entries :
                          entries[i].period = period /\ entries[i].entry_type = "provento"})

DetailDeductionsOf(entries, period) ==
    SumAbsAmount(entries, {i \in DOMAIN entries :
                             entries[i].period = period /\ entries[i].entry_type = "desconto"})

\* A stored total equals a sum, as it is or rounded to 2 decimals.
IsSum(stored, sum) == stored = sum \/ stored = Round2(sum)

RowsOf(totals, m) == {i \in DOMAIN totals : totals[i].month = m}

\* The aggregate of month m is the one a reconciliation derives from the
\* entries as they are now: no row for a month without entries.
UpToDate(m) ==
    IF m \in ItemMonths(payroll_items)
    THEN /\ RowsOf(monthly_totals, m) # {}
         /\ \A i \in RowsOf(monthly_totals, m) :
              /\ monthly_totals[i].total_proventos = Round2(AggProventos(payroll_items, m))
              /\ monthly_totals[i].total_descontos = Round2(AggDescontos(payroll_items, m))
              /\ monthly_totals[i].valor_liquido =
                   Round2(AggProventos(payroll_items, m) - AggDescontos(payroll_items, m))
    ELSE RowsOf(monthly_totals, m) = {}

WholeCents(items) == \A i \in DOMAIN items : items[i].amount % 10 = 0

-----------------------------------------------------------------------------
(* Properties *)

\* C1 (sum invariant): after a reconciliation covering period P, the row of
\* P has total_income equal to the sum of P's income-like amounts and
\* total_deductions equal to the sum of |amount| over P's desconto entries,
\* whatever the signs the desconto amounts are stored with.
C1_SumInvariant ==
    /\ Reconciled =>
         \A m \in ItemMonths(payroll_items) :
            /\ RowsOf(monthly_totals, m) # {}
            /\ \A i \in RowsOf(monthly_totals, m) :
                 /\ IsSum(monthly_totals[i].total_proventos, IncomeOf(payroll_items, m))
                 /\ IsSum(monthly_totals[i].total_descontos, DeductionsOf(payroll_items, m))
    /\ \A p \in DbPeriods : Recalculated(p) =>
         \E r \in period_totals :
            /\ r.period = p
            /\ IsSum(r.total_proventos, DetailIncomeOf(detail_entries, p))
            /\ IsSum(r.total_descontos, DetailDeductionsOf(detail_entries, p))

\* C2: after create_item, update_item or delete_item returns successfully,
\* the aggregate of every period the mutation touched is the one derived from
\* the current entries; a period the mutation emptied has no row.
C2_TouchedPeriodsReconciled ==
    ( /\ layer = "app"
      /\ last.op \in {"create_item", "update_item", "delete_item"}
      /\ last.outcome = "success" )
    => \A m \in last.touched : UpToDate(m)

\* C2 witness: an update moved the only entry of a period to another period;
\* the old period has no row left and the new one has its row.
C2_Witness ==
    /\ layer = "app"
    /\ last.op = "update_item"
    /\ last.outcome = "success"
    /\ \E a \in last.touched, b \in last.touched :
          /\ a # b
          /\ a \in last.had
          /\ a \notin ItemMonths(payroll_items)
          /\ RowsOf(monthly_totals, a) = {}
          /\ payroll_items[last.id].month = b
          /\ RowsOf(monthly_totals, b) # {}

\* C3: in every state between requests after a first reconciliation, every
\* period with at least one entry and an aggregate row has the numeric
\* fields a reconciliation derives from its entries.
C3_AggregatesMatchEntries ==
    (layer = "app" /\ nreq >= 1) =>
        \A m \in ItemMonths(payroll_items) :
            RowsOf(monthly_totals, m) # {} => UpToDate(m)

C5_NotesPreserved ==
    [][ Reconciled' =>
          \A i \in DOMAIN monthly_totals :
             monthly_totals[i].month \in ItemMonths(payroll_items') =>
                \E j \in DOMAIN monthly_totals' :
                   /\ monthly_totals'[j].month = monthly_totals[i].month
                   /\ monthly_totals'[j].notes = monthly_totals[i].notes ]_vars

\* C5 witness: a reconciliation ran over a period whose row carried a note,
\* and the note is still there.
C5_Witness ==
    /\ Reconciled
    /\ \E i \in DOMAIN monthly_totals :
          /\ monthly_totals[i].notes = "X"
          /\ monthly_totals[i].month \in last.had

\* C6 (idempotence): a reconciliation that follows a reconciliation, with
\* the entries unchanged in between, leaves the aggregate table as the first
\* left it: the full rebuild and the single-period upsert alike.
C6_Idempotent ==
    [][ /\ ( /\ Reconciled
             /\ last'.op \in {"index", "recalculate_totals"}
             /\ payroll_items' = payroll_items )
           => monthly_totals' = monthly_totals
        /\ \A p \in DbPeriods :
             ( /\ Recalculated(p)
               /\ last'.op = "recalculate_month_totals"
               /\ p \in last'.touched )
             => period_totals' = period_totals ]_vars

\* C6 witness: a rebuild ran right after a request that had reconciled, over
\* a table that holds a note.
C6_Witness ==
    /\ Reconciled
    /\ last.op = "recalculate_totals"
    /\ last.prev.op \in {"index", "recalculate_totals", "create_item",
                         "update_item", "delete_item"}
    /\ \E i \in DOMAIN monthly_totals : monthly_totals[i].notes = "X"

\* C7 (deletion zeroing): once a period has no entry left,
\* recalculate_month_totals(P) leaves a row for P whose three totals are 0.
C7_DeletionZeroes ==
    \A p \in DbPeriods :
        ( /\ Recalculated(p)
          /\ \A i \in DOMAIN detail_entries : detail_entries[i].period # p )
        => /\ \E r \in period_totals : r.period = p
           /\ \A r \in period_totals :
                r.period = p =>
                   /\ r.total_proventos = 0
                   /\ r.total_descontos = 0
                   /\ r.valor_liquido = 0

\* C7 witness: the period had a row, its last entry was deleted, and the
\* recalculation that followed left the row, zeroed.
C7_Witness ==
    \E p \in DbPeriods :
        /\ Recalculated(p)
        /\ last.prev.op = "delete_entry"
        /\ p \in last.prev.touched
        /\ p \in last.had
        /\ \A i \in DOMAIN detail_entries : detail_entries[i].period # p
        /\ \E r \in period_totals : r.period = p /\ r.valor_liquido = 0

\* C8 (full rebuild): right after reconcile_monthly_totals the periods that
\* have an aggregate row are exactly the periods that have an entry.
C8_FullRebuild ==
    Reconciled => TotalMonths(monthly_totals) = ItemMonths(payroll_items)

\* C8 witness: a row made by create_total for a period without entries was
\* there before the rebuild and is gone after it.
C8_Witness ==
    /\ Reconciled
    /\ last.prev.op = "create_total"
    /\ \E m \in last.had :
          /\ m \in last.prev.touched
          /\ m \notin ItemMonths(payroll_items)
          /\ m \notin TotalMonths(monthly_totals)

\* C9 (uniqueness): no two aggregate rows are of the same period.
C9_OneRowPerPeriod ==
    /\ \A i \in DOMAIN monthly_totals, j \in DOMAIN monthly_totals :
          monthly_totals[i].month = monthly_totals[j].month => i = j
    /\ \A r \in period_totals, q \in period_totals :
          r.period = q.period => r = q

\* C9 witness: update_total asked for a month that another row holds.
C9_Witness ==
    /\ layer = "app"
    /\ last.op = "update_total"
    /\ last.outcome = "error"
    /\ Cardinality(DOMAIN monthly_totals) >= 2

\* C10 (duplicate manual aggregate): create_total for a period that has an
\* aggregate row ends in a warning and changes neither table.
C10_DuplicateTotalNoOp ==
    [][ ( /\ layer = "app"
          /\ last'.op = "create_total"
          /\ last'.touched \subseteq TotalMonths(monthly_totals) )
        => /\ last'.outcome = "warning"
           /\ monthly_totals' = monthly_totals
           /\ payroll_items' = payroll_items ]_vars

\* C10 witness: create_total met the row of its period and warned.
C10_Witness ==
    /\ layer = "app"
    /\ last.op = "create_total"
    /\ last.outcome = "warning"
    /\ last.touched \subseteq last.had
    /\ \E i \in DOMAIN monthly_totals :
          /\ monthly_totals[i].month \in last.touched
          /\ monthly_totals[i].notes = None

\* C13 (read-only dashboard): serving index leaves the entries table and
\* the aggregates table as they were.
C13_IndexReadOnly ==
    [][ (layer = "app" /\ last'.op = "index")
        => /\ payroll_items' = payroll_items
           /\ monthly_totals' = monthly_totals ]_vars

\* C14 (not found): a request for an id that does not exist ends not-found
\* and leaves both tables as they were.
C14_NotFoundNoEffect ==
    [][ (layer = "app" /\ last'.outcome = "not_found")
        => /\ payroll_items' = payroll_items
           /\ monthly_totals' = monthly_totals ]_vars

\* C16 (non-negative deductions): after a reconciliation of either kind the
\* reconciled rows have total_deductions >= 0.
C16_DeductionsNonNegative ==
    /\ Reconciled =>
         \A i \in DOMAIN monthly_totals : monthly_totals[i].total_descontos >= 0
    /\ \A p \in DbPeriods : Recalculated(p) =>
         \A r \in period_totals : r.period = p => r.total_descontos >= 0

\* C17 (single-period frame): recalculate_month_totals(P) leaves the entries
\* and the rows of every other period as they were, leaves exactly one row
\* of P, and adds one row to the table only when P had none.
C17_SinglePeriodFrame ==
    [][ \A p \in DbPeriods :
          ( /\ layer = "db"
            /\ last'.op = "recalculate_month_totals"
            /\ p \in last'.touched )
          => /\ detail_entries' = detail_entries
             /\ {r \in period_totals' : r.period # p} = {r \in period_totals : r.period # p}
             /\ Cardinality({r \in period_totals' : r.period = p}) = 1
             /\ Cardinality(period_totals') =
                  IF p \in TotalPeriods(period_totals)
                  THEN Cardinality(period_totals)
                  ELSE Cardinality(period_totals) + 1 ]_vars

\* C17 witness: a recalculation added the row of its period beside the row
\* of another period, over a table of entries.
C17_Witness ==
    \E p \in DbPeriods :
        /\ Recalculated(p)
        /\ p \notin last.had
        /\ last.had # {}
        /\ Cardinality(period_totals) = Cardinality(last.had) + 1
        /\ DOMAIN detail_entries # {}

\* C15 (validation): creating an entry whose type is not a recognized one,
\* or whose amount does not parse, ends in an error and changes no table.
C15_InvalidCreateRejected ==
    [][ /\ ( /\ layer = "app"
             /\ last'.op = "create_item"
             /\ \/ last'.outcome = "error"
                \/ payroll_items'[last'.id].item_type \notin RecognizedTypes )
           => /\ last'.outcome = "error"
              /\ payroll_items' = payroll_items
              /\ monthly_totals' = monthly_totals
        /\ ( /\ layer = "db"
             /\ last'.op = "insert_entry"
             /\ \/ last'.outcome = "error"
                \/ ~CheckEntryType(detail_entries'[last'.id]) )
           => /\ last'.outcome = "error"
              /\ detail_entries' = detail_entries
              /\ period_totals' = period_totals ]_vars

\* C18 (storage failure): update_total that asks, for an existing row, a
\* month another row holds fails, and leaves both tables as they were.
C18_ClashRollsBack ==
    [][ ( /\ layer = "app"
          /\ last'.op = "update_total"
          /\ last'.id \in DOMAIN monthly_totals )
        => /\ ( \E j \in DOMAIN monthly_totals \ {last'.id} :
                   monthly_totals[j].month =
                      IF last'.outcome = "error"
                      THEN CHOOSE m \in last'.touched : TRUE
                      ELSE monthly_totals'[last'.id].month )
              => last'.outcome = "error"
           /\ last'.outcome = "error"
              => /\ payroll_items' = payroll_items
                 /\ monthly_totals' = monthly_totals ]_vars

\* C18 witness: the update of a row that was there met the month of another
\* row that was there, and failed.
C18_Witness ==
    /\ layer = "app"
    /\ last.op = "update_total"
    /\ last.outcome = "error"
    /\ last.touched \subseteq last.had
    /\ last.id \in DOMAIN monthly_totals
    /\ monthly_totals[last.id].month \in last.had \ last.touched

\* The filters as the specification words them.
Satisfies(item, filter_month, filter_type) ==
    /\ filter_month # 0 => item.month = filter_month
    /\ filter_type \notin {None, ""} => item.item_type = filter_type

\* C19 (query_items): the result holds exactly the entries that satisfy
\* every given filter, each once, ordered by month descending and, within
\* a month, by id descending.
C19_QueryItems ==
    (layer = "app" /\ last.op = "index") =>
        \A fm \in FilterMonths, ft \in FilterTypes :
            LET q == QueryItems(payroll_items, fm, ft)
            IN  /\ {q[k] : k \in 1..Len(q)} =
                      {i \in DOMAIN payroll_items : Satisfies(payroll_items[i], fm, ft)}
                /\ \A k \in 1..Len(q), l \in 1..Len(q) :
                      k < l =>
                         \/ payroll_items[q[k]].month > payroll_items[q[l]].month
                         \/ /\ payroll_items[q[k]].month = payroll_items[q[l]].month
                            /\ q[k] > q[l]

\* C19 witness: index served a ledger on which both filters together select
\* fewer rows than either alone, over more than one month.
C19_Witness ==
    /\ layer = "app"
    /\ last.op = "index"
    /\ Len(QueryItems(payroll_items, 202501, "desconto")) >= 2
    /\ Len(QueryItems(payroll_items, 202501, None))
          > Len(QueryItems(payroll_items, 202501, "desconto"))
    /\ Len(QueryItems(payroll_items, 0, "desconto"))
          > Len(QueryItems(payroll_items, 202501, "desconto"))

\* C20 (seeding only on an empty ledger): a request on a ledger that holds
\* entries adds no entry but the one create_item makes, and changes no
\* table when it ends not-found, in a warning or in an error; a request on
\* an empty ledger puts the demo entries in; and no request but delete_item
\* leaves the entries table empty.
C20_SeedOnlyWhenEmpty ==
    [][ (layer = "app" /\ last' # last) =>
          /\ DOMAIN payroll_items # {} =>
                /\ Cardinality(DOMAIN payroll_items' \ DOMAIN payroll_items)
                      = IF last'.op = "create_item" /\ last'.outcome = "success"
                        THEN 1 ELSE 0
                /\ last'.op \notin {"update_item", "delete_item"} =>
                      \A i \in DOMAIN payroll_items : payroll_items'[i] = payroll_items[i]
                /\ last'.outcome \in {"not_found", "warning", "error"} =>
                      monthly_totals' = monthly_totals
          /\ DOMAIN payroll_items = {} =>
                \A i \in 1..Len(SeedItems) :
                   \/ i \in DOMAIN payroll_items' /\ payroll_items'[i] = SeedItems[i]
                   \/ last'.op \in {"update_item", "delete_item"} /\ last'.id = i
          /\ last'.op # "delete_item" => DOMAIN payroll_items' # {} ]_vars

\* C20 witness: the first request seeded the empty ledger and a later one
\* found the six demo entries and added nothing to them.
C20_Witness ==
    /\ layer = "app"
    /\ nreq >= 2
    /\ last.prev.op # "init"
    /\ last.op = "create_total"
    /\ payroll_items = SeedItems

\* C11 (unit of work): in no committed state does the store hold the entry
\* change of a request without the aggregates of the periods it touched
\* being the ones derived from the entries.
C11_UnitOfWork == \A m \in session.touched : UpToDate(m)

\* C12 (atomic commit of the reconciliation): the committed aggregates
\* table changes in the commit of reconcile_monthly_totals only, and that
\* commit puts the complete rebuilt table in the place of the complete
\* table of before the run.
C12_ReconcileAtomic ==
    [][ /\ monthly_totals' # monthly_totals
           => session.pc = "adding" /\ session.todo = {}
        /\ (session.pc = "adding" /\ session'.pc # "adding")
           => monthly_totals' = ReconcileMonthlyTotals(payroll_items, monthly_totals) ]_vars

\* C12 witness: the open transaction has deleted the old rows and added
\* some of the new ones, and the committed table still holds the old rows.
C12_Witness ==
    /\ session.pc = "adding"
    /\ DOMAIN session.work # {}
    /\ session.todo # {}
    /\ Cardinality(DOMAIN monthly_totals) > Cardinality(DOMAIN session.work)
    /\ monthly_totals # ReconcileMonthlyTotals(payroll_items, monthly_totals)

=============================================================================
